---- MODULE Spec2Model ----
(***************************************************************************)
(* Model of logwatcher: LogWatcher (src/src/logwatcher/watcher.py) tailing *)
(* one path, ColorFormatter (src/src/logwatcher/formatter.py) and          *)
(* StatsCollector (src/src/logwatcher/models.py).                          *)
(*                                                                         *)
(* A file is a sequence of units: 0 is the line terminator "\n", a         *)
(* positive number k is the chunk of text written by the k-th write (its   *)
(* characters are Text(k)).  Offsets (tell/seek/getsize) count units.      *)
(* The loop of start() is cut at its system calls, so that writers, the    *)
(* rotation tool and the controlling thread interleave with a poll cycle.  *)
(***************************************************************************)
EXTENDS Integers, Sequences, FiniteSets, TLC

\* ------------------------------------------------------------------ bounds
MaxWrites == 2        \* chunks written after construction (ids 2..MaxWrites+1)
MaxFiles == 2         \* physical files (inodes) that ever exist
MaxTruncs == 1        \* in-place truncations
MaxFaults == 1        \* open() calls failing with a transient OSError
MaxRetriesCfg == 2    \* largest max_retries configured
MaxDelivered == MaxWrites + 1     \* calls of _process_line recorded
MaxErrors == MaxRetriesCfg + 1    \* cap of stats.errors_occurred
MaxEntries == 2       \* entries handed to StatsCollector.handle
MaxEvents == 22       \* system events handed to StatsCollector.handle
MaxFileErrors == 2    \* those of them that are FileErrorEvents
MaxOther == 1         \* objects handed to handle that are no events

RecentLimit == 20     \* models.py line 364: length of system_events.recent
NL == 0
NoFile == 0

\* ------------------------------------------------------ strings, formatter
Levels == <<"ERROR", "WARN", "INFO", "DEBUG">>

LevelSet == {"ERROR", "WARN", "INFO", "DEBUG"}

LevelChars(level) ==
  CASE level = "ERROR" -> <<"E", "R", "R", "O", "R">>
    [] level = "WARN"  -> <<"W", "A", "R", "N">>
    [] level = "INFO"  -> <<"I", "N", "F", "O">>
    [] level = "DEBUG" -> <<"D", "E", "B", "U", "G">>

UpperChar(c) ==
  CASE c = "a" -> "A" [] c = "b" -> "B" [] c = "c" -> "C" [] c = "d" -> "D"
    [] c = "e" -> "E" [] c = "f" -> "F" [] c = "g" -> "G" [] c = "h" -> "H"
    [] c = "i" -> "I" [] c = "j" -> "J" [] c = "k" -> "K" [] c = "l" -> "L"
    [] c = "m" -> "M" [] c = "n" -> "N" [] c = "o" -> "O" [] c = "p" -> "P"
    [] c = "q" -> "Q" [] c = "r" -> "R" [] c = "s" -> "S" [] c = "t" -> "T"
    [] c = "u" -> "U" [] c = "v" -> "V" [] c = "w" -> "W" [] c = "x" -> "X"
    [] c = "y" -> "Y" [] c = "z" -> "Z"
    [] OTHER -> c

Upper(s) == [i \in 1..Len(s) |-> UpperChar(s[i])]

\* str.find: least 1-based index at which sub occurs in s, 0 when absent
Find(sub, s) ==
  LET hits == {i \in 1..(Len(s) - Len(sub) + 1) : SubSeq(s, i, i + Len(sub) - 1) = sub}
  IN IF hits = {} THEN 0 ELSE CHOOSE i \in hits : \A j \in hits : i <= j

StripChars == {" ", ":", "[", "]"}

RECURSIVE LStrip(_)
LStrip(s) == IF s # <<>> /\ Head(s) \in StripChars THEN LStrip(Tail(s)) ELSE s

\* mutant: the line without a level token returned in upper case
RECURSIVE ExtractFromUpper(_, _)
ExtractFromUpper(k, line) ==
  IF k > Len(Levels) THEN [level |-> "INFO", message |-> Upper(line)]
  ELSE LET lv == LevelChars(Levels[k])
           up == Upper(line)
           at == Find(lv, up)
       IN IF at # 0
          THEN [level |-> Levels[k],
                message |-> LStrip(SubSeq(up, at + Len(lv), Len(up)))]
          ELSE ExtractFromUpper(k + 1, line)

RECURSIVE ExtractFrom(_, _)
ExtractFrom(k, line) ==
  IF k > Len(Levels) THEN [level |-> "INFO", message |-> line]
  ELSE LET lv == LevelChars(Levels[k])
           up == Upper(line)
           at == Find(lv, up)
       IN IF at # 0
          THEN [level |-> Levels[k],
                message |-> LStrip(SubSeq(up, at + Len(lv), Len(up)))]
          ELSE ExtractFrom(k + 1, line)

extract_level(line) == ExtractFrom(1, line)

LEVEL_PRIORITY(level, default) ==
  CASE level = "DEBUG" -> 0
    [] level = "INFO"  -> 1
    [] level = "WARN"  -> 2
    [] level = "ERROR" -> 3
    [] OTHER -> default

should_show(detected_level, minimum) ==
  LEVEL_PRIORITY(detected_level, 0) >= LEVEL_PRIORITY(minimum, 3)

\* the characters of the chunk written by the k-th write
Text(k) ==
  CASE k = 1 -> <<"E", "R", "R", "O", "R", ":", " ", "a">>
    [] k = 2 -> <<"i", "n", "f", "o", " ", "b">>
    [] k = 3 -> <<"W", "A", "R", "N", ":", " ", "x">>
    [] OTHER -> <<"x", " ", "x">>

RECURSIVE LineText(_)
LineText(ids) == IF ids = <<>> THEN <<>> ELSE Text(Head(ids)) \o LineText(Tail(ids))

\* --------------------------------------------------------------- file reads
\* mutant: read() for readline(): everything up to the end of the file
LineEndAll(content, pos) == Len(content)

\* offset just past the line that starts at offset pos: past its terminator,
\* or the end of the file when no terminator follows (TextIOWrapper.readline)
LineEnd(content, pos) ==
  LET nls == {j \in (pos + 1)..Len(content) : content[j] = NL}
  IN IF nls = {} THEN Len(content) ELSE CHOOSE j \in nls : \A i \in nls : j <= i

RECURSIVE RStrip(_)
RStrip(s) == IF s # <<>> /\ s[Len(s)] = NL THEN RStrip(SubSeq(s, 1, Len(s) - 1)) ELSE s

\* mutant: the truncation test off by one (>= for >)
SeekTargetAtEnd(current_position, size) ==
  IF current_position >= size THEN 0 ELSE current_position

\* mutant: seek(0) in both branches
SeekTargetStart(current_position, size) == 0

\* line 144-148: where the read of this cycle starts
SeekTarget(current_position, size) ==
  IF current_position > size THEN 0 ELSE current_position

\* mutant: the seek to the end of the file left out
OpenOffsetStart(content) == 0

\* line 102: offset of a freshly opened handle
OpenOffset(content) == Len(content)

IdsOf(content) == {content[i] : i \in 1..Len(content)} \ {NL}

\* -------------------------------------------------------------------- state
VARIABLES
  config,           \* WatcherConfig: follow_rotation, restart_on_error, max_retries
  min_level,        \* LogWatcher.min_level
  _state,           \* WatcherState
  _stop_requested,
  _retry_count,
  _inode,           \* identity recorded by the last successful _open_file
  _file,            \* the handle: closed, the file it is open on, its offset
  stats,
  pc,               \* position of the thread that runs start()
  file_size,        \* local of _read_new_data
  exc,              \* exception propagating out of the try block of start()
  result,           \* how start() ended
  path,             \* the file the watched path names (NoFile: missing)
  files,            \* content of every physical file
  nextId,           \* id of the next chunk written
  truncs,           \* truncations done
  faults,           \* open() faults injected
  delivered,        \* history: the lines passed to _process_line, in order
  preexisting,      \* history: chunks in the file when start() was called
  replaced,         \* history: times the path got a file of another identity
  exhausted,        \* history: the retry handler gave up (line 170-172)
  truncated,        \* history: some poll found size < cursor (line 144)
  shrunk,           \* history: the path's size may have shrunk since the last detection
  retry_opens,      \* history: _open_file calls made by _handle_read_error
  stop_called,      \* history: another thread called stop()
  resumed,          \* history: a resume() found the state PAUSED
  built,            \* how LogWatcher.__init__ ended: "no" before it ran
  formatter_raises, \* the formatter installed has an extract_level that raises
  other,            \* pc, file_size, exc, result of the other invocation of start()
  input_line,       \* a line handed to ColorFormatter.extract_level
  classified,       \* what extract_level returned for it
  collector,        \* StatsCollector.stats
  handling,         \* position of the thread inside StatsCollector.handle
  snapshot,         \* the mapping a StatsCollector.get_stats() call returned
  filtered,         \* a call of ColorFormatter.should_show: arguments, result
  system_events,    \* StatsCollector.stats["system_events"]
  handled,          \* history: the system events handed to handle(), by type
  returned          \* the mapping a LogWatcher.get_stats() call returned

vars == <<config, min_level, _state, _stop_requested, _retry_count, _inode, _file,
          stats, pc, file_size, exc, result, path, files, nextId, truncs, faults,
          delivered, preexisting, replaced, exhausted, truncated, shrunk,
          retry_opens, stop_called, resumed, built, formatter_raises, other,
          input_line, classified, collector, handling, snapshot,
          filtered, system_events, handled, returned>>

\* what no step of start(), of the controlling thread or of the writers changes
cfgVars == <<config, min_level, built, formatter_raises, other,
             input_line, classified, collector, handling, snapshot,
             filtered, system_events, handled, returned>>

\* the formatter's arguments, the StatsCollector and the mapping of get_stats(),
\* which no step of a LogWatcher assigns
libVars == <<input_line, classified, collector, handling, snapshot,
             filtered, system_events, handled, returned>>
envVars == <<path, files, nextId, truncs, faults>>
histVars == <<delivered, preexisting, replaced, exhausted, truncated, shrunk,
              retry_opens, stop_called, resumed>>

FileIds == 1..MaxFiles

\* the configurations that pass validate(): check_interval > 0,
\* max_retries >= 0, retry_delay >= 0
Configs ==
  [follow_rotation : BOOLEAN, restart_on_error : BOOLEAN, max_retries : 0..MaxRetriesCfg,
   check_interval : {1}, retry_delay : {0}]

\* the types of the system events handed to StatsCollector.handle
EventTypes == {"file_rotation", "file_error"}

\* what extract_level has returned while it has not been called
NoEntry == [level |-> "none", message |-> <<>>]

\* StatsCollector.__init__ (models.py line 294-313), its log_entries part
\* with one source
\* `keys` is the insertion order of the keys of lines_by_level, by_source the
\* count of the one source
NewCollector ==
  [total_lines |-> 0, lines_by_level |-> [l \in LevelSet |-> 0], keys |-> Levels,
   by_source |-> 0]

\* the keys of stats["log_entries"] in the order copy.deepcopy walks them:
\* a dict keeps insertion order (models.py line 296-304)
CopyOrder == <<"total_lines", "lines_by_level", "by_source">>

\* the copy copy.deepcopy builds, before it has copied a key
EmptyCopy ==
  [total_lines |-> 0, lines_by_level |-> [l \in {} |-> 0], keys |-> <<>>,
   by_source |-> 0]

\* no get_stats() has been called yet; `iterating` is the nested dict
\* deepcopy walks and `size` the size it had when the walk began
NoSnapshot ==
  [taken |-> "no", todo |-> CopyOrder, iterating |-> "none", size |-> 0,
   mutated |-> FALSE, stats |-> EmptyCopy]

\* no handle() call is in progress
Resting == [stage |-> "idle", level |-> <<>>]

\* should_show has not been called
NoFilter == [detected |-> "DEBUG", min_level |-> "DEBUG", called |-> FALSE, result |-> FALSE]

\* StatsCollector.__init__ (models.py line 305-309): no system event yet; an
\* event is the number of its arrival, by_type counts the events of each type
NoEvents ==
  [total_events |-> 0, by_type |-> [t \in EventTypes \cup {"unknown"} |-> 0],
   recent |-> <<>>]

\* LogWatcher.get_stats() has not been called
\* before LogWatcher.get_stats() was called.  The returned mapping holds its
\* own values under the scalar keys; under "lines_by_level" it holds a
\* reference to a mapping object: "watcher" names the object that
\* self.stats["lines_by_level"] refers to
NoReturn ==
  [taken |-> FALSE, total_lines |-> 0, errors_occurred |-> 0, state |-> "STOPPED",
   lines_by_level |-> "none"]

\* nothing handed to the formatter, a new StatsCollector at rest
LibIdle ==
  /\ input_line = <<>> /\ classified = NoEntry
  /\ collector = NewCollector /\ handling = Resting /\ snapshot = NoSnapshot
  /\ filtered = NoFilter /\ system_events = NoEvents /\ returned = NoReturn
  /\ handled = [t \in EventTypes |-> 0]

\* the locals of an invocation of start() that has not begun
NotStarted == [pc |-> "idle", file_size |-> 0, exc |-> "none", result |-> "none"]

\* LogWatcher.__init__ on an existing file that holds one complete line
Init ==
  /\ config \in Configs
  /\ min_level = "WARN"
  /\ _state = "STOPPED"
  /\ _stop_requested = FALSE
  /\ _retry_count = 0
  /\ _inode = NoFile
  /\ _file = [closed |-> TRUE, fid |-> NoFile, pos |-> 0]
  /\ stats = [start_time |-> FALSE, total_lines |-> 0,
              lines_by_level |-> [l \in LevelSet |-> 0],
              rotations_detected |-> 0, errors_occurred |-> 0]
  /\ pc = "idle"
  /\ file_size = 0
  /\ exc = "none"
  /\ result = "none"
  /\ path = 1
  /\ files = [f \in FileIds |-> IF f = 1 THEN <<1, NL>> ELSE <<>>]
  /\ nextId = 2
  /\ truncs = 0
  /\ faults = 0
  /\ delivered = <<>>
  /\ preexisting = {}
  /\ replaced = 0
  /\ exhausted = FALSE
  /\ truncated = FALSE
  /\ shrunk = FALSE
  /\ retry_opens = 0
  /\ stop_called = FALSE
  /\ resumed = FALSE
  /\ built = "yes"
  /\ formatter_raises = FALSE
  /\ other = NotStarted
  /\ LibIdle

\* ------------------------------------------------- writers and rotation tool
EnvFrame == UNCHANGED <<cfgVars, _state, _stop_requested, _retry_count, _inode, _file,
                        stats, pc, file_size, exc, result, delivered, preexisting,
                        exhausted, truncated, retry_opens, stop_called, resumed>>

\* a writer appends "text\n" to the file at the path
AppendLine ==
  /\ path # NoFile /\ nextId <= MaxWrites + 1
  /\ files' = [files EXCEPT ![path] = @ \o <<nextId, NL>>]
  /\ nextId' = nextId + 1
  /\ UNCHANGED <<path, truncs, faults, replaced, shrunk>>
  /\ EnvFrame

\* a writer appends text without its terminator
AppendPartial ==
  /\ path # NoFile /\ nextId <= MaxWrites + 1
  /\ files' = [files EXCEPT ![path] = Append(@, nextId)]
  /\ nextId' = nextId + 1
  /\ UNCHANGED <<path, truncs, faults, replaced, shrunk>>
  /\ EnvFrame

\* the writer of a partial line writes its terminator
CompleteLine ==
  /\ path # NoFile
  /\ files[path] # <<>> /\ files[path][Len(files[path])] # NL
  /\ files' = [files EXCEPT ![path] = Append(@, NL)]
  /\ UNCHANGED <<path, nextId, truncs, faults, replaced, shrunk>>
  /\ EnvFrame

\* in-place truncation of the file at the path to k units
Truncate ==
  /\ path # NoFile /\ truncs < MaxTruncs
  /\ \E k \in 0..(Len(files[path]) - 1) :
       files' = [files EXCEPT ![path] = SubSeq(@, 1, k)]
  /\ truncs' = truncs + 1
  /\ shrunk' = TRUE
  /\ UNCHANGED <<path, nextId, faults, replaced>>
  /\ EnvFrame

\* the next file never used so far (file 1 exists at construction)
FreshFile == replaced + 2

\* rename(2) of a new, empty file over the path: the old file lives on
\* under the handles that have it open
Rotate ==
  /\ path # NoFile
  /\ FreshFile \in FileIds
  /\ path' = FreshFile
  /\ replaced' = replaced + 1
  /\ shrunk' = TRUE
  /\ UNCHANGED <<files, nextId, truncs, faults>>
  /\ EnvFrame

\* unlink(2) of the path
Remove ==
  /\ path # NoFile
  /\ path' = NoFile
  /\ UNCHANGED <<files, nextId, truncs, faults, replaced, shrunk>>
  /\ EnvFrame

\* a new, empty file is created at the missing path
Create ==
  /\ path = NoFile
  /\ FreshFile \in FileIds
  /\ path' = FreshFile
  /\ replaced' = replaced + 1
  /\ shrunk' = TRUE
  /\ UNCHANGED <<files, nextId, truncs, faults>>
  /\ EnvFrame

\* ------------------------------------------------------------- LogWatcher
\* _update_stats (line 110-115)
_update_stats(st, level) ==
  [st EXCEPT !.total_lines = @ + 1,
             !.lines_by_level = IF level \in DOMAIN @
                                THEN [@ EXCEPT ![level] = @ + 1] ELSE @]

\* mutant: the except clause of _process_line counting nothing
_process_line_uncounted(st, ids, print_ok) ==
  LET entry == extract_level(LineText(ids))
  IN IF ~formatter_raises /\ should_show(entry.level, min_level) /\ print_ok
     THEN _update_stats(st, entry.level)
     ELSE st

\* _process_line (line 125-137): the statistics after the call on `ids`;
\* print_ok tells whether formatting and print() returned normally
_process_line(st, ids, print_ok) ==
  LET entry == extract_level(LineText(ids))
  IN IF formatter_raises THEN [st EXCEPT !.errors_occurred = @ + 1]
     ELSE IF should_show(entry.level, min_level)
     THEN IF print_ok THEN _update_stats(st, entry.level)
                      ELSE [st EXCEPT !.errors_occurred = @ + 1]
     ELSE st

\* _open_file (line 96-108) leaving the caller at okPc, or at failPc with the
\* exception it raised; the previous handle is closed first in both cases
_open_file(okPc, failPc) ==
  \E fault \in BOOLEAN :
    /\ fault => (path # NoFile /\ faults < MaxFaults)
    /\ faults' = IF fault THEN faults + 1 ELSE faults
    /\ IF path # NoFile /\ ~fault
       THEN /\ _file' = [closed |-> FALSE, fid |-> path, pos |-> OpenOffset(files[path])]
            /\ _inode' = path
            /\ pc' = okPc
       ELSE /\ _file' = [_file EXCEPT !.closed = TRUE]
            /\ _inode' = _inode
            /\ pc' = failPc
    /\ UNCHANGED <<path, files, nextId, truncs>>

\* mutant: the existence check left out
existsAlways(p) == TRUE

\* Path.exists (line 178)
exists(p) == p # NoFile

\* start() called on a constructed watcher: the existence check, line 178-180
StartCall ==
  /\ built = "yes"
  /\ pc = "idle" /\ result = "none"
  /\ IF ~exists(path)
     THEN /\ result' = "FileNotFoundError"
          /\ UNCHANGED <<pc, preexisting>>
     ELSE /\ preexisting' = IF path = NoFile THEN {} ELSE IdsOf(files[path])
          /\ pc' = "init"
          /\ UNCHANGED result
  /\ UNCHANGED <<cfgVars, _state, _stop_requested, stats, _retry_count, _inode, _file,
                 file_size, exc, envVars, delivered, replaced, exhausted, truncated,
                 shrunk, retry_opens, stop_called, resumed>>

\* start(), line 183-190
StartInit ==
  /\ pc = "init"
  /\ _state' = "RUNNING"
  /\ _stop_requested' = FALSE
  /\ stats' = [stats EXCEPT !.start_time = TRUE]
  /\ pc' = "open"
  /\ UNCHANGED <<cfgVars, _retry_count, _inode, _file, file_size, exc, result, envVars,
                 histVars>>

\* start(), line 193
StartOpen ==
  /\ pc = "open"
  /\ _open_file("while", "except")
  /\ exc' = IF pc' = "except" THEN "OSError" ELSE exc
  /\ UNCHANGED <<cfgVars, _state, _stop_requested, _retry_count, stats, file_size,
                 result, histVars>>

\* the loop condition, line 195
LoopCheck ==
  /\ pc = "while"
  /\ pc' = IF ~_stop_requested /\ _state = "RUNNING" THEN "pause_check" ELSE "finally"
  /\ UNCHANGED <<cfgVars, _state, _stop_requested, _retry_count, _inode, _file, stats,
                 file_size, exc, result, envVars, histVars>>

\* line 198-200
PauseCheck ==
  /\ pc = "pause_check"
  /\ pc' = IF _state = "PAUSED" THEN "while" ELSE "rotation"
  /\ UNCHANGED <<cfgVars, _state, _stop_requested, _retry_count, _inode, _file, stats,
                 file_size, exc, result, envVars, histVars>>

\* _check_rotation (line 117-123) and line 203-205
_check_rotation == path # NoFile /\ path # _inode

CheckRotation ==
  /\ pc = "rotation"
  /\ IF config.follow_rotation /\ _check_rotation
     THEN /\ stats' = [stats EXCEPT !.rotations_detected = @ + 1]
          /\ pc' = "reopen"
     ELSE /\ pc' = "size"
          /\ UNCHANGED stats
  /\ UNCHANGED <<cfgVars, _state, _stop_requested, _retry_count, _inode, _file,
                 file_size, exc, result, envVars, histVars>>

\* line 206
RotationReopen ==
  /\ pc = "reopen"
  /\ _open_file("size", "handler")
  /\ UNCHANGED <<cfgVars, _state, _stop_requested, _retry_count, stats, file_size,
                 exc, result, histVars>>

\* _read_new_data, line 141-142: tell() raises ValueError on a closed handle,
\* getsize() raises FileNotFoundError on a missing path
ReadSize ==
  /\ pc = "size"
  /\ IF _file.closed
     THEN /\ pc' = "except" /\ exc' = "ValueError"
          /\ UNCHANGED file_size
     ELSE IF path = NoFile
     THEN /\ pc' = "handler"
          /\ UNCHANGED <<file_size, exc>>
     ELSE /\ file_size' = Len(files[path])
          /\ pc' = "read"
          /\ UNCHANGED exc
  /\ UNCHANGED <<cfgVars, _state, _stop_requested, _retry_count, _inode, _file, stats,
                 result, envVars, histVars>>

\* mutant: the reset of line 210 left out
RetryCountKept(n) == n

\* line 210: the retry counter after a cycle that raised nothing
RetryCountAfterCycle(n) == 0

\* _read_new_data, line 144-152, and line 210
ReadLine ==
  /\ pc = "read"
  /\ IF _file.closed
     THEN /\ pc' = "except" /\ exc' = "ValueError"
          /\ UNCHANGED <<_file, _retry_count, stats, delivered, truncated, shrunk>>
     ELSE LET content == files[_file.fid]
              from == SeekTarget(_file.pos, file_size)
              to == IF from >= Len(content) THEN from ELSE LineEnd(content, from)
              line == SubSeq(content, from + 1, to)
          IN /\ _file' = [_file EXCEPT !.pos = to]
             /\ truncated' = (truncated \/ _file.pos > file_size)
             /\ shrunk' = IF _file.pos > file_size THEN FALSE ELSE shrunk
             /\ IF line # <<>>
                THEN \E text \in {RStrip(line)}, print_ok \in BOOLEAN :
                       /\ Len(delivered) < MaxDelivered
                       /\ delivered' = Append(delivered, text)
                       /\ (~print_ok \/ formatter_raises) =>
                            stats.errors_occurred < MaxErrors
                       /\ stats' = _process_line(stats, text, print_ok)
                ELSE UNCHANGED <<delivered, stats>>
             /\ _retry_count' = RetryCountAfterCycle(_retry_count)
             /\ pc' = "while"
             /\ UNCHANGED exc
  /\ file_size' = 0
  /\ UNCHANGED <<cfgVars, _state, _stop_requested, _inode, result, envVars,
                 preexisting, replaced, exhausted, retry_opens, stop_called, resumed>>

\* _handle_read_error, line 155-162 and 169-172
HandleReadError ==
  /\ pc = "handler"
  /\ stats.errors_occurred < MaxErrors
  /\ stats' = [stats EXCEPT !.errors_occurred = @ + 1]
  /\ IF config.restart_on_error
     THEN /\ _retry_count' = _retry_count + 1
          /\ IF _retry_count' < config.max_retries
             THEN /\ pc' = "retry_open"
                  /\ UNCHANGED <<_state, _stop_requested, exhausted>>
             ELSE /\ _state' = "ERROR"
                  /\ _stop_requested' = TRUE
                  /\ exhausted' = TRUE
                  /\ pc' = "while"
     ELSE /\ pc' = "while"
          /\ UNCHANGED <<_retry_count, _state, _stop_requested, exhausted>>
  /\ UNCHANGED <<cfgVars, _inode, _file, file_size, exc, result, envVars,
                 delivered, preexisting, replaced, truncated, shrunk, retry_opens,
                 stop_called, resumed>>

\* _handle_read_error, line 164-168: the reopen, its failure swallowed
RetryReopen ==
  /\ pc = "retry_open"
  /\ _open_file("while", "while")
  /\ retry_opens' = retry_opens + 1
  /\ UNCHANGED <<cfgVars, _state, _stop_requested, _retry_count, stats, file_size,
                 exc, result, delivered, preexisting, replaced, exhausted, truncated,
                 shrunk, stop_called, resumed>>

\* start(), line 219-222
Except ==
  /\ pc = "except"
  /\ _state' = "ERROR"
  /\ pc' = "finally"
  /\ UNCHANGED <<cfgVars, _stop_requested, _retry_count, _inode, _file, stats,
                 file_size, exc, result, envVars, histVars>>

\* mutant: stop() without the close of the handle
stopLeavesHandle ==
  /\ _file' = _file
  /\ _stop_requested' = TRUE
  /\ _state' = "STOPPED"

\* stop(), line 246-250
stop ==
  /\ _file' = [_file EXCEPT !.closed = TRUE]
  /\ _stop_requested' = TRUE
  /\ _state' = "STOPPED"

\* start(), line 223-224: stop(), then the return or the re-raise
Finally ==
  /\ pc = "finally"
  /\ stop
  /\ pc' = "done"
  /\ result' = IF exc = "none" THEN "returned" ELSE exc
  /\ UNCHANGED <<cfgVars, _retry_count, _inode, stats, file_size, exc, envVars, histVars>>

\* start() called again on the same instance after an invocation has ended
StartAgain ==
  /\ pc = "done"
  /\ pc' = "idle" /\ result' = "none" /\ exc' = "none"
  /\ UNCHANGED <<cfgVars, _state, _stop_requested, _retry_count, _inode, _file, stats,
                 file_size, envVars, histVars>>

\* the positions of start() inside its try block (line 192-215)
InTry == {"open", "while", "pause_check", "rotation", "reopen", "size", "read",
          "handler", "retry_open"}

\* KeyboardInterrupt raised in the thread that runs start().  Inside the try
\* block it is caught by line 217-218 and the finally clause follows; in the
\* except clause (line 219-222) it replaces the exception, before or after
\* the state was set; line 183-190 are outside the try statement, so there
\* it leaves start() at once, after any of the assignments; inside stop()
\* called by the finally clause (line 246-250) it leaves stop() and start()
\* after any of its statements
Interrupt ==
  /\ pc \in InTry \cup {"init", "except", "finally"}
  /\ IF pc \in InTry
     THEN /\ pc' = "finally"
          /\ UNCHANGED <<_state, _stop_requested, _file, stats, exc, result>>
     ELSE IF pc = "except"
     THEN /\ pc' = "finally" /\ exc' = "KeyboardInterrupt"
          /\ _state' \in {_state, "ERROR"}
          /\ UNCHANGED <<_stop_requested, _file, stats, result>>
     ELSE IF pc = "init"
     THEN /\ pc' = "done" /\ result' = "KeyboardInterrupt"
          /\ \E done \in 0..3 :
               /\ _state' = IF done >= 1 THEN "RUNNING" ELSE _state
               /\ _stop_requested' = IF done >= 2 THEN FALSE ELSE _stop_requested
               /\ stats' = IF done >= 3 THEN [stats EXCEPT !.start_time = TRUE] ELSE stats
          /\ UNCHANGED <<_file, exc>>
     ELSE /\ pc' = "done" /\ result' = "KeyboardInterrupt"
          /\ \E done \in 0..3 :
               /\ _file' = IF done >= 1 THEN [_file EXCEPT !.closed = TRUE] ELSE _file
               /\ _stop_requested' = IF done >= 2 THEN TRUE ELSE _stop_requested
               /\ _state' = IF done >= 3 THEN "STOPPED" ELSE _state
          /\ UNCHANGED <<stats, exc>>
  /\ UNCHANGED <<cfgVars, _retry_count, _inode, file_size, envVars, histVars>>

\* --------------------------------------------------- the controlling thread
CtlFrame == UNCHANGED <<cfgVars, _retry_count, _inode, stats, pc, file_size, exc,
                        result, envVars, delivered, preexisting, replaced, exhausted,
                        truncated, shrunk, retry_opens>>

\* mutant: pause() without its state test
PauseFromAnyState ==
  /\ _state' = "PAUSED"
  /\ UNCHANGED <<_stop_requested, _file, stop_called, resumed>>
  /\ CtlFrame

\* pause(), line 226-232
Pause ==
  /\ _state' = IF _state = "RUNNING" THEN "PAUSED" ELSE _state
  /\ UNCHANGED <<_stop_requested, _file, stop_called, resumed>>
  /\ CtlFrame

\* mutant: resume() without its state test
ResumeFromAnyState ==
  /\ _state' = "RUNNING"
  /\ resumed' = (resumed \/ _state = "PAUSED")
  /\ UNCHANGED <<_stop_requested, _file, stop_called>>
  /\ CtlFrame

\* resume(), line 234-240
Resume ==
  /\ _state' = IF _state = "PAUSED" THEN "RUNNING" ELSE _state
  /\ resumed' = (resumed \/ _state = "PAUSED")
  /\ UNCHANGED <<_stop_requested, _file, stop_called>>
  /\ CtlFrame

\* stop() called by another thread
Stop ==
  /\ stop
  /\ stop_called' = TRUE
  /\ UNCHANGED resumed
  /\ CtlFrame

\* a formatter whose extract_level raises is installed (the patch of
\* test_process_line_error)
PatchFormatter ==
  /\ ~formatter_raises
  /\ formatter_raises' = TRUE
  /\ UNCHANGED <<config, min_level, built, other, libVars, _state, _stop_requested, _retry_count,
                 _inode, _file, stats, pc, file_size, exc, result, envVars, histVars>>

\* ---------------------------------------------------------- construction
\* every WatcherConfig the dataclass constructor returns: it only assigns
AnyConfigs ==
  [follow_rotation : BOOLEAN, restart_on_error : BOOLEAN,
   max_retries : (-1)..MaxRetriesCfg, check_interval : (-1)..1, retry_delay : (-1)..1]

\* the value of `config` while no WatcherConfig has been constructed
Unset ==
  [follow_rotation |-> FALSE, restart_on_error |-> FALSE, max_retries |-> 0,
   check_interval |-> 0, retry_delay |-> 0]

\* WatcherConfig.validate (line 34-41)
validate(c) ==
  IF c.check_interval <= 0 THEN "ValueError"
  ELSE IF c.max_retries < 0 THEN "ValueError"
  ELSE IF c.retry_delay < 0 THEN "ValueError"
  ELSE "ok"

\* the stats dictionary of line 76-90
NewStats ==
  [start_time |-> FALSE, total_lines |-> 0, lines_by_level |-> [l \in LevelSet |-> 0],
   rotations_detected |-> 0, errors_occurred |-> 0]

\* WatcherConfig(...), line 19-32
NewConfig ==
  /\ built = "nothing"
  /\ config' \in AnyConfigs
  /\ built' = "config"
  /\ UNCHANGED <<min_level, formatter_raises, other, libVars, _state, _stop_requested,
                 _retry_count, _inode, _file, stats, pc, file_size, exc, result,
                 envVars, histVars>>

\* LogWatcher(filename, min_level, config=config), line 63-92: the path is
\* not looked at
Construct ==
  /\ built = "config"
  /\ IF validate(config) = "ok"
     THEN /\ built' = "yes"
          /\ _state' = "STOPPED"
          /\ _file' = [closed |-> TRUE, fid |-> NoFile, pos |-> 0]
          /\ _inode' = NoFile
          /\ _stop_requested' = FALSE
          /\ stats' = NewStats
          /\ _retry_count' = 0
     ELSE /\ built' = "ValueError"
          /\ UNCHANGED <<_state, _file, _inode, _stop_requested, stats, _retry_count>>
  /\ UNCHANGED <<config, min_level, formatter_raises, other, libVars, pc, file_size, exc,
                 result, envVars, histVars>>

Built == built = "yes"

\* ------------------------------------------------- two invocations of start()
\* the steps of start() are those of the invocation in front; the scheduler
\* brings the other invocation in front
Switch ==
  /\ other' = [pc |-> pc, file_size |-> file_size, exc |-> exc, result |-> result]
  /\ pc' = other.pc
  /\ file_size' = other.file_size
  /\ exc' = other.exc
  /\ result' = other.result
  /\ UNCHANGED <<config, min_level, built, formatter_raises, libVars, _state,
                 _stop_requested, _retry_count, _inode, _file, stats, envVars, histVars>>

\* ------------------------------------------------------ the formatter alone
Prefixes == {<<>>, <<"[">>}

Tokens ==
  {LevelChars(l) : l \in LevelSet}
    \cup {<<"e", "r", "r", "o", "r">>, <<"W", "a", "r", "n">>, <<>>}

Separators == {<<":", " ">>, <<" ">>, <<"]", " ">>, <<>>}

Texts == {<<"d", "b", " ", "d", "o", "w", "n">>, <<"h", "e", "l", "l", "o", " ", "w", "o", "r", "l", "d">>, <<"O", "K", " ", "7">>, <<"n", "o", " ", "w", "a", "r", "n", "i", "n", "g">>, <<>>}

\* the lines handed to extract_level
Lines == {p \o t \o sp \o x : p \in Prefixes, t \in Tokens, sp \in Separators, x \in Texts}

\* formatter.extract_level(input_line), formatter.py line 30-43
Classify ==
  /\ classified = NoEntry
  /\ classified' = extract_level(input_line)
  /\ UNCHANGED <<config, min_level, built, formatter_raises, other, input_line,
                 collector, handling, snapshot, filtered, system_events, handled,
                 returned,
                 _state, _stop_requested, _retry_count,
                 _inode, _file, stats, pc, file_size, exc, result, envVars, histVars>>

\* the level strings handed to should_show: the four levels, other strings
FilterLevels == LevelSet \cup {"TRACE", "FATAL", "warn", ""}

\* formatter.should_show(detected_level, min_level), formatter.py line 45-48
Filter ==
  /\ ~filtered.called
  /\ filtered' = [filtered EXCEPT
                    !.called = TRUE,
                    !.result = should_show(filtered.detected, filtered.min_level)]
  /\ UNCHANGED <<config, min_level, built, formatter_raises, other, input_line,
                 classified, collector, handling, snapshot, system_events, handled,
                 returned, _state, _stop_requested, _retry_count, _inode, _file,
                 stats, pc, file_size, exc, result, envVars, histVars>>

\* ------------------------------------------------- LogWatcher.get_stats()
\* dict.copy() (line 267) copies one level: the value under a key of the copy
\* is the object the key of the original refers to
CopyRef(ref) == ref

\* the content of the mapping under the snapshot's key "lines_by_level"
ReturnedLevels ==
  IF returned.lines_by_level = "watcher" THEN stats.lines_by_level
  ELSE [l \in LevelSet |-> 0]

\* get_stats(), line 260-279, called by any thread
get_stats ==
  /\ built = "yes" /\ ~returned.taken
  /\ returned' = [taken |-> TRUE,
                  total_lines |-> stats.total_lines,
                  errors_occurred |-> stats.errors_occurred,
                  state |-> _state,
                  lines_by_level |-> CopyRef("watcher")]
  /\ UNCHANGED <<config, min_level, built, formatter_raises, other, input_line,
                 classified, collector, handling, snapshot, filtered, system_events,
                 handled, _state, _stop_requested, _retry_count, _inode, _file,
                 stats, pc, file_size, exc, result, envVars, histVars>>

\* the caller assigns into the mapping it got: under a key of the mapping
\* itself, or under a level of the mapping found under "lines_by_level"
MutateReturned ==
  /\ returned.taken
  /\ \/ /\ \E v \in 0..1 : returned' = [returned EXCEPT !.total_lines = v]
        /\ UNCHANGED stats
     \/ /\ returned.lines_by_level = "watcher"
        /\ \E l \in LevelSet, v \in 0..1 :
             stats' = [stats EXCEPT !.lines_by_level[l] = v]
        /\ UNCHANGED returned
  /\ UNCHANGED <<config, min_level, built, formatter_raises, other, input_line,
                 classified, collector, handling, snapshot, filtered, system_events,
                 handled, _state, _stop_requested, _retry_count, _inode, _file,
                 pc, file_size, exc, result, envVars, histVars>>

\* -------------------------------------------------- the StatsCollector alone
\* handle() and get_stats() touch nothing of a LogWatcher
LibFrame ==
  UNCHANGED <<config, min_level, built, formatter_raises, other, input_line, classified,
              filtered, returned,
              _state, _stop_requested, _retry_count, _inode, _file, stats, pc, file_size,
              exc, result, envVars, histVars>>

\* entry.level of the entries handed to handle(): what RegexLogParser.parse
\* yields (models.py line 235-244; "WARNING" is one of its valid levels) and
\* what a caller may write
EntryLevels ==
  {LevelChars(l) : l \in LevelSet}
    \cup {<<"e", "r", "r", "o", "r">>, <<"T", "R", "A", "C", "E">>,
          <<"W", "A", "R", "N", "I", "N", "G">>}

\* the dict key made of these characters
LevelName(chars) ==
  CASE chars = <<"E", "R", "R", "O", "R">> -> "ERROR"
    [] chars = <<"W", "A", "R", "N">> -> "WARN"
    [] chars = <<"I", "N", "F", "O">> -> "INFO"
    [] chars = <<"D", "E", "B", "U", "G">> -> "DEBUG"
    [] chars = <<"T", "R", "A", "C", "E">> -> "TRACE"
    [] chars = <<"W", "A", "R", "N", "I", "N", "G">> -> "WARNING"
    [] chars = <<"e", "r", "r", "o", "r">> -> "error"
    [] OTHER -> "other"

\* d[k] = v on a dict
Put(d, k, v) == [x \in DOMAIN d \cup {k} |-> IF x = k THEN v ELSE d[x]]

\* handle(entry) with a LogEntry: _handle_log_entry up to its first statement,
\* stats["log_entries"]["total_lines"] += 1 (models.py line 315-317, 330)
HandleTotal ==
  /\ handling.stage = "idle"
  /\ collector.total_lines < MaxEntries
  /\ \E level \in EntryLevels :
       handling' = [stage |-> "level", level |-> level]
  /\ collector' = [collector EXCEPT !.total_lines = @ + 1]
  /\ UNCHANGED snapshot
  /\ UNCHANGED <<system_events, handled>>
  /\ LibFrame

\* lines_by_level[entry.level.upper()] += 1 (models.py line 333-337)
HandleLevel ==
  /\ handling.stage = "level"
  /\ LET level == LevelName(Upper(handling.level))
     IN collector' = IF level \in DOMAIN collector.lines_by_level
                     THEN [collector EXCEPT !.lines_by_level[level] = @ + 1]
                     ELSE [collector EXCEPT
                             !.lines_by_level = Put(@, level, 1),
                             !.keys = Append(@, level)]
  /\ handling' = [handling EXCEPT !.stage = "source"]
  /\ UNCHANGED snapshot
  /\ UNCHANGED <<system_events, handled>>
  /\ LibFrame

\* by_source[entry.src] += 1, and handle() returns (models.py line 340-343)
HandleSource ==
  /\ handling.stage = "source"
  /\ collector' = [collector EXCEPT !.by_source = @ + 1]
  /\ handling' = Resting
  /\ UNCHANGED snapshot
  /\ UNCHANGED <<system_events, handled>>
  /\ LibFrame

\* get_stats() is called and copy.deepcopy begins (models.py line 379-380);
\* no lock is taken, a handle() in another thread goes on
GetStats ==
  /\ snapshot.taken = "no"
  /\ snapshot' = [snapshot EXCEPT !.taken = "copying"]
  /\ UNCHANGED <<collector, handling>>
  /\ UNCHANGED <<system_events, handled>>
  /\ LibFrame

\* the keys of a nested dict of stats["log_entries"], in insertion order
DictKeys(c, dict) ==
  IF dict = "lines_by_level" THEN c.keys
  ELSE IF c.by_source > 0 THEN <<"source">> ELSE <<>>

\* the value a key of stats["log_entries"], or of a nested dict of it, holds
Field(c, dict, key) ==
  IF key = "total_lines" THEN c.total_lines
  ELSE IF dict = "by_source" THEN c.by_source
  ELSE c.lines_by_level[key]

\* the copy with one more key written
WithField(c, dict, key, v) ==
  IF key = "total_lines" THEN [c EXCEPT !.total_lines = v]
  ELSE IF dict = "by_source" THEN [c EXCEPT !.by_source = v]
  ELSE [c EXCEPT !.lines_by_level = Put(@, key, v),
                 !.keys = Append(@, key)]

\* one step of copy.deepcopy (models.py line 380): it copies total_lines,
\* begins to walk a nested dict, copies the next key of that dict, or ends
\* the walk; a walk that finds the size of its dict changed raises
\* RuntimeError.  After the last step get_stats() returns the copy (line 387)
CopyKey ==
  /\ snapshot.taken = "copying"
  /\ LET key == Head(snapshot.todo)
         rest == Tail(snapshot.todo)
         end == IF rest = <<>> THEN "yes" ELSE "copying"
         resized == Len(DictKeys(collector, snapshot.iterating)) # snapshot.size
     IN IF key = "total_lines"
        THEN snapshot' = [snapshot EXCEPT
                            !.stats = WithField(@, "none", key, Field(collector, "none", key)),
                            !.todo = rest]
        ELSE IF key \in {"lines_by_level", "by_source"}
        THEN snapshot' = [snapshot EXCEPT
                            !.iterating = key,
                            !.size = Len(DictKeys(collector, key)),
                            !.todo = DictKeys(collector, key) \o <<"end">> \o rest]
        ELSE IF resized
        THEN snapshot' = [snapshot EXCEPT !.taken = "RuntimeError", !.todo = <<>>]
        ELSE IF key = "end"
        THEN snapshot' = [snapshot EXCEPT !.todo = rest, !.taken = end]
        ELSE snapshot' = [snapshot EXCEPT
                            !.stats = WithField(@, snapshot.iterating, key,
                                                Field(collector, snapshot.iterating, key)),
                            !.todo = rest]
  /\ UNCHANGED <<collector, handling>>
  /\ UNCHANGED <<system_events, handled>>
  /\ LibFrame

\* the caller writes into the mapping get_stats() returned, two levels down
MutateSnapshot ==
  /\ snapshot.taken = "yes" /\ ~snapshot.mutated
  /\ \E level \in LevelSet :
       snapshot' = [snapshot EXCEPT !.stats.lines_by_level[level] = @ + 1,
                                    !.mutated = TRUE]
  /\ UNCHANGED <<collector, handling>>
  /\ UNCHANGED <<system_events, handled>>
  /\ LibFrame

\* handle() leaves log_entries and every field of a LogWatcher alone when it
\* is not handed a LogEntry
EventFrame ==
  /\ UNCHANGED <<collector, handling, snapshot>>
  /\ LibFrame

\* the system events handed to handle() so far
Arrived == handled["file_rotation"] + handled["file_error"]

\* mutant: the newest entry evicted
EvictNewest(recent) ==
  IF Len(recent) > RecentLimit THEN SubSeq(recent, 1, Len(recent) - 1) ELSE recent

\* models.py line 364-365: recent.pop(0) once the list is longer than 20
Evict(recent) ==
  IF Len(recent) > RecentLimit THEN Tail(recent) ELSE recent

\* handle(entry) with a SystemEvent: _handle_system_event (models.py line
\* 318-319, 349-365); the event is named by the number of its arrival
HandleSystemEvent ==
  /\ Arrived < MaxEvents
  /\ \E t \in EventTypes :
       /\ t = "file_error" => handled[t] < MaxFileErrors
       /\ system_events' =
            [system_events EXCEPT
               !.total_events = @ + 1,
               !.by_type[t] = @ + 1,
               !.recent = Evict(Append(@, [id |-> Arrived + 1, type |-> t]))]
       /\ handled' = [handled EXCEPT ![t] = @ + 1]
  /\ EventFrame

\* handle(entry) with an object that is neither a LogEntry nor a SystemEvent
\* (models.py line 320-323)
HandleOther ==
  /\ system_events.by_type["unknown"] < MaxOther
  /\ system_events' = [system_events EXCEPT !.by_type["unknown"] = @ + 1]
  /\ UNCHANGED handled
  /\ EventFrame

\* the writers and the rotation tool act while start() runs
Alive == pc \notin {"idle", "done"}

\* start() and its loop, but for the steps only an I/O error or a rotation reaches
Poll ==
  \/ StartCall \/ StartInit \/ StartOpen \/ LoopCheck \/ PauseCheck \/ CheckRotation
  \/ ReadSize \/ ReadLine \/ Except \/ Finally

Loop == Poll \/ RotationReopen \/ HandleReadError \/ RetryReopen

Next ==
  \/ Loop
  \/ Pause \/ Resume \/ Stop
  \/ (Alive /\ AppendLine) \/ (Alive /\ AppendPartial) \/ (Alive /\ CompleteLine)
  \/ (Alive /\ Truncate) \/ (Alive /\ Rotate) \/ (Alive /\ Remove) \/ (Alive /\ Create)

Spec == Init /\ [][Next]_vars

\* the tail engine under appends, truncation and rotation, with stop()
InitTail == Init /\ config.restart_on_error /\ config.max_retries = MaxRetriesCfg

NextTail ==
  \/ Loop
  \/ Stop
  \/ (Alive /\ AppendLine) \/ (Alive /\ AppendPartial) \/ (Alive /\ CompleteLine)
  \/ (Alive /\ Truncate) \/ (Alive /\ Rotate)

SpecTail == InitTail /\ [][NextTail]_vars

\* rotation with every retry configuration
NextRotation ==
  \/ Loop
  \/ (Alive /\ AppendLine) \/ (Alive /\ Rotate)

SpecRotation == Init /\ [][NextRotation]_vars

\* a path that is removed and never comes back
NextRetry ==
  \/ Poll \/ HandleReadError \/ RetryReopen
  \/ Stop
  \/ (Alive /\ AppendLine) \/ (Alive /\ Remove)

SpecRetry == Init /\ [][NextRetry]_vars

\* the controlling thread pausing and resuming
NextPause ==
  \/ Poll
  \/ Pause \/ Resume \/ Stop
  \/ (Alive /\ AppendLine) \/ (Alive /\ AppendPartial) \/ (Alive /\ CompleteLine)

SpecPause == Init /\ [][NextPause]_vars

\* before LogWatcher.__init__ has run no field of the watcher is set
Unbuilt ==
  /\ min_level = "WARN"
  /\ _state = "UNSET"
  /\ _stop_requested = FALSE
  /\ _retry_count = 0
  /\ _inode = NoFile
  /\ _file = [closed |-> TRUE, fid |-> NoFile, pos |-> 0]
  /\ stats = NewStats
  /\ pc = "idle" /\ file_size = 0 /\ exc = "none" /\ result = "none"
  /\ other = NotStarted
  /\ path \in {NoFile, 1}
  /\ files = [f \in FileIds |-> IF f = 1 /\ path = 1 THEN <<1, NL>> ELSE <<>>]
  /\ nextId = 2 /\ truncs = 0 /\ faults = 0
  /\ delivered = <<>> /\ preexisting = {} /\ replaced = 0
  /\ exhausted = FALSE /\ truncated = FALSE /\ shrunk = FALSE
  /\ retry_opens = 0 /\ stop_called = FALSE /\ resumed = FALSE
  /\ formatter_raises = FALSE

\* construction, then start() called up to twice on a path that may be missing
InitStart ==
  /\ Unbuilt /\ built = "config" /\ LibIdle
  /\ config \in Configs /\ ~config.follow_rotation /\ config.max_retries = 1

NextStart ==
  \/ Construct
  \/ Poll \/ HandleReadError
  \/ (Built /\ Switch)
  \/ (Built /\ Pause) \/ (Built /\ Resume) \/ (Built /\ Stop)
  \/ (Alive /\ AppendLine) \/ Remove

SpecStart == InitStart /\ [][NextStart]_vars

\* the constructors alone, on every value of the validated fields
InitConfig == Unbuilt /\ built = "nothing" /\ config = Unset /\ LibIdle

NextConfig == NewConfig \/ Construct

SpecConfig == InitConfig /\ [][NextConfig]_vars

\* extract_level applied to each of Lines
InitFormat ==
  /\ Unbuilt /\ built = "nothing" /\ config = Unset
  /\ input_line \in Lines /\ classified = NoEntry
  /\ collector = NewCollector /\ handling = Resting /\ snapshot = NoSnapshot
  /\ filtered = NoFilter /\ system_events = NoEvents /\ returned = NoReturn
  /\ handled = [t \in EventTypes |-> 0]

NextFormat == Classify

SpecFormat == InitFormat /\ [][NextFormat]_vars

\* should_show applied to each pair of FilterLevels
InitFilter ==
  /\ Unbuilt /\ built = "nothing" /\ config = Unset
  /\ input_line = <<>> /\ classified = NoEntry
  /\ collector = NewCollector /\ handling = Resting /\ snapshot = NoSnapshot
  /\ system_events = NoEvents /\ returned = NoReturn
  /\ handled = [t \in EventTypes |-> 0]
  /\ filtered \in [detected : FilterLevels, min_level : FilterLevels,
                   called : {FALSE}, result : {FALSE}]

NextFilter == Filter

SpecFilter == InitFilter /\ [][NextFilter]_vars

\* one thread in handle(), another in get_stats(), a new StatsCollector
InitCollector == Unbuilt /\ built = "nothing" /\ config = Unset /\ LibIdle

NextCollector ==
  \/ HandleTotal \/ HandleLevel \/ HandleSource
  \/ GetStats \/ CopyKey \/ MutateSnapshot

SpecCollector == InitCollector /\ [][NextCollector]_vars

\* the poll loop scheduled fairly: the thread in start() sleeps check_interval
\* seconds per cycle (line 215) and is then run again; writers append whole
\* lines, nothing pauses or stops the watcher, removes or replaces the file
NextLive == Poll \/ (Alive /\ AppendLine)

SpecLive == InitTail /\ [][NextLive]_vars /\ WF_vars(Poll)

\* a new StatsCollector handed system events and other objects, one at a time
NextEvents == HandleSystemEvent \/ HandleOther

SpecEvents == InitCollector /\ [][NextEvents]_vars

\* the poll loop scheduled fairly, stop() called by another thread at any
\* moment after start() was called and before it has ended
NextStop == Poll \/ (Alive /\ Stop) \/ (Alive /\ AppendLine)

SpecStop == InitTail /\ [][NextStop]_vars /\ WF_vars(Poll)

\* start() in the main thread, ended by a stop() from another thread, by a
\* removed file or by KeyboardInterrupt
NextInterrupt ==
  \/ Poll \/ HandleReadError \/ RetryReopen
  \/ Interrupt
  \/ Stop
  \/ (Alive /\ AppendLine) \/ (Alive /\ Remove)

SpecInterrupt == Init /\ [][NextInterrupt]_vars

\* an instance started again after its start() ended, on a path that is
\* removed and created again
NextRestart ==
  \/ Poll \/ HandleReadError \/ RetryReopen
  \/ StartAgain
  \/ (Alive /\ AppendLine) \/ (Alive /\ Remove) \/ Create

SpecRestart == Init /\ [][NextRestart]_vars

\* the loop without the retry policy (restart_on_error = False), under
\* rotation, removal and failing opens
InitNoRestart == Init /\ ~config.restart_on_error

NextNoRestart ==
  \/ Poll \/ RotationReopen \/ HandleReadError
  \/ Stop
  \/ (Alive /\ AppendLine) \/ (Alive /\ Rotate) \/ (Alive /\ Remove)

SpecNoRestart == InitNoRestart /\ [][NextNoRestart]_vars

\* a running watcher whose statistics are read, and written into, by a caller
NextStats ==
  \/ Poll
  \/ Stop
  \/ (Alive /\ AppendLine)
  \/ get_stats
  \/ MutateReturned

SpecStats == InitTail /\ [][NextStats]_vars

\* the tail engine with a formatter that may be replaced by a raising one
NextClassify ==
  \/ Poll
  \/ PatchFormatter
  \/ (Alive /\ AppendLine) \/ (Alive /\ AppendPartial) \/ (Alive /\ CompleteLine)
  \/ (Alive /\ Truncate)

SpecClassify == InitTail /\ [][NextClassify]_vars

TypeOK ==
  /\ _state \in {"UNSET", "STOPPED", "RUNNING", "PAUSED", "ERROR"}
  /\ _retry_count \in 0..(MaxRetriesCfg + 1)
  /\ stats.errors_occurred \in 0..MaxErrors

\* ------------------------------------------------------------------ claims
DeliveredIds == UNION {IdsOf(delivered[i]) : i \in 1..Len(delivered)}

\* how many times chunk k was passed to _process_line
Occurrences(k) ==
  Cardinality({ij \in (1..Len(delivered)) \X (1..(2 * MaxDelivered)) :
                 ij[2] <= Len(delivered[ij[1]]) /\ delivered[ij[1]][ij[2]] = k})

\* C1 as claimed: whatever the writers, truncations and rotations do after
\* start(), no chunk that was in the file when start() was called is ever
\* passed to _process_line.
C1_NoHistory == DeliveredIds \cap preexisting = {}

\* C1 amended: as long as no poll has found the size of the path below the
\* read cursor (no truncation detected), no chunk that was in the file when
\* start() was called has been passed to _process_line.
C1_NoHistoryUntilTruncation == ~truncated => C1_NoHistory

\* C1 witness: a file with content at start(), lines delivered afterwards, a
\* truncation done but never detected.
C1_Witness ==
  /\ preexisting # {} /\ delivered # <<>> /\ truncs > 0 /\ ~truncated
  /\ pc = "while"

\* C2 as claimed: over any interleaving of appends, truncations, rotations and
\* polls, every chunk written is passed to _process_line at most once.
C2_AtMostOnce == \A k \in 1..(MaxWrites + 1) : Occurrences(k) <= 1

\* C2 amended: as long as no poll has found the size of the path below the
\* read cursor, every chunk written has been passed to _process_line at most
\* once.
C2_AtMostOnceUntilTruncation == ~truncated => C2_AtMostOnce

\* C2 witness: two lines delivered, through a rotation, with no truncation
\* detected.
C2_Witness ==
  /\ Len(delivered) >= 2 /\ ~truncated /\ stats.rotations_detected > 0
  /\ Cardinality(DeliveredIds) >= 2

\* C3 as claimed (its count): with follow_rotation, the rotations recorded
\* never exceed the times the path got a file of another identity, also when
\* the reopen after a detected rotation fails and the next poll tries again.
C3_RotationOnce == config.follow_rotation => stats.rotations_detected <= replaced

\* the read of a poll cycle that found the size of the path below the cursor
DetectingRead == pc = "read" /\ pc' = "while" /\ ~_file.closed /\ _file.pos > file_size

\* C4 as claimed: a poll that finds the size below the cursor answers a shrink
\* of the path that no earlier poll has answered (each shrink is detected
\* once), and its read starts at offset 0.
C4_TruncationOnce ==
  [][DetectingRead =>
       /\ shrunk
       /\ _file'.pos = (IF files[_file.fid] = <<>> THEN 0 ELSE LineEnd(files[_file.fid], 0))]_vars

SameHandle == ~_file.closed /\ ~_file'.closed /\ _inode' = _inode

\* C5 as claimed: while the watcher holds the same file identity, no step
\* (so no poll cycle) leaves the read cursor smaller than it found it.
C5_IdentityContinuity == [][SameHandle => _file'.pos >= _file.pos]_vars

\* C5 amended: while the watcher holds the same file identity, every step
\* other than the read of a poll that found the size of the path below the
\* cursor leaves the cursor greater than or equal to what it was.
C5_ContinuityUnlessTruncated ==
  [][(SameHandle /\ ~DetectingRead) => _file'.pos >= _file.pos]_vars

\* C5 witness: two polls on the identity opened by start() moved the cursor
\* forward twice, a truncation done in between going undetected.
C5_Witness ==
  /\ ~_file.closed /\ _inode = 1 /\ replaced = 0 /\ ~truncated /\ truncs > 0
  /\ Len(delivered) >= 2 /\ _file.pos > 2

\* C6 as claimed: with restart_on_error and max_retries = N, a run whose
\* polls fail because the path is gone for good ends with exactly N failed
\* reopen attempts made by the retry handler and the state set to ERROR.
C6_RetryBound ==
  (pc = "done" /\ config.restart_on_error /\ ~stop_called /\ path = NoFile
     /\ stats.errors_occurred > 0)
  => (exhausted /\ retry_opens = config.max_retries)

\* C7 as claimed: once start() has ended, the state is ERROR when the run
\* ended by exhausted retries and STOPPED when it ended by stop().
C7_EndStates ==
  pc = "done" =>
    /\ (exhausted /\ ~stop_called) => _state = "ERROR"
    /\ (stop_called /\ ~exhausted /\ result = "returned") => _state = "STOPPED"

C8_Rank(level) ==
  CASE level = "DEBUG" -> 0 [] level = "INFO" -> 1 [] level = "WARN" -> 2
    [] level = "ERROR" -> 3

LastLevel == extract_level(LineText(delivered'[Len(delivered')])).level

Counted(level) ==
  /\ stats'.total_lines = stats.total_lines + 1
  /\ stats'.lines_by_level[level] = stats.lines_by_level[level] + 1

\* C8 as claimed: should_show(detected, min_level) is rank(detected) >=
\* rank(min_level) on the four levels, and every call of _process_line counts
\* (having printed) its line iff should_show holds for the line's level.
C8_FilterCorrect ==
  [][/\ \A d \in LevelSet, m \in LevelSet :
          should_show(d, m) <=> (C8_Rank(d) >= C8_Rank(m))
     /\ delivered' # delivered =>
          (Counted(LastLevel) <=> should_show(LastLevel, min_level))]_vars

\* C9 as claimed: when the output of an entry fails inside _process_line, the
\* entry is still counted in total_lines and lines_by_level, and the loop
\* goes on to its next cycle.
C9_SinkIsolation ==
  [][(delivered' # delivered /\ stats'.errors_occurred > stats.errors_occurred)
       => (Counted(LastLevel) /\ pc' = "while")]_vars

\* C10 as claimed: from a state that is PAUSED with the handle open, no step
\* but a stop() by the controlling thread (so neither the loop nor a
\* following resume()) leaves the handle closed or at another offset.
C10_PauseKeepsHandle ==
  [][(_state = "PAUSED" /\ ~_file.closed /\ ~Stop)
       => (~_file'.closed /\ _file'.fid = _file.fid /\ _file'.pos = _file.pos)]_vars

\* C11 as claimed: the loop of start() is left (start() has reached its
\* finally clause) only after a stop() was requested or after an error that
\* could not be recovered; a pause() never ends it.
C11_LoopEndsOnStopOrError ==
  pc \in {"finally", "done"} => (stop_called \/ exhausted \/ exc # "none")

\* C12: start() on a missing path raises FileNotFoundError at once, goes no
\* further and leaves state, handle, inode, _stop_requested, _retry_count and
\* stats (start_time included) as they were; the constructor succeeds on a
\* missing path.
C12_StartOnMissingPath ==
  [][/\ (StartCall /\ path = NoFile) =>
          /\ result' = "FileNotFoundError" /\ pc' = "idle"
          /\ UNCHANGED <<_state, _file, _inode, _stop_requested, _retry_count, stats>>
     /\ result' = "FileNotFoundError" => pc' = "idle"
     /\ (Construct /\ path = NoFile) => (built' = "yes" /\ _state' = "STOPPED")]_vars

\* C12 witness: a watcher constructed on a missing path, its start() refused
C12_Witness ==
  /\ built = "yes" /\ path = NoFile /\ replaced = 0 /\ files[1] = <<>>
  /\ result = "FileNotFoundError" /\ _state = "STOPPED" /\ _file.closed

\* C13 as claimed: start() invoked while the state is not STOPPED changes
\* neither the state nor _stop_requested nor the handle, and does not go on
\* to open the file and run a loop.
C13_StartFromStoppedOnly ==
  [][(StartCall /\ _state # "STOPPED") =>
       (UNCHANGED <<_state, _stop_requested, _file>> /\ pc' = "idle")]_vars

\* C14: pause() makes the state PAUSED iff it was RUNNING; from every other
\* state it changes nothing; the handle, _stop_requested, _retry_count and
\* the stats are never touched.
C14_PauseEffect ==
  [][Pause =>
       /\ (_state = "RUNNING" => _state' = "PAUSED")
       /\ (_state # "RUNNING" => _state' = _state)
       /\ UNCHANGED <<_file, _stop_requested, _retry_count, stats>>]_vars

\* C14 witness: a pause() has taken effect while the loop holds the file open
C14_Witness == _state = "PAUSED" /\ ~_file.closed /\ pc = "pause_check"

\* C15: resume() makes the state RUNNING iff it was PAUSED; from every other
\* state it changes nothing; the handle, _stop_requested, _retry_count and
\* the stats are never touched.
C15_ResumeEffect ==
  [][Resume =>
       /\ (_state = "PAUSED" => _state' = "RUNNING")
       /\ (_state # "PAUSED" => _state' = _state)
       /\ UNCHANGED <<_file, _stop_requested, _retry_count, stats>>]_vars

\* C15 witness: a resume() has found the state PAUSED and the loop runs on
C15_Witness == resumed /\ _state = "RUNNING" /\ ~_file.closed /\ pc = "rotation"

Stopped == _file.closed /\ _state = "STOPPED" /\ _stop_requested

\* C16: from every state stop() leaves the handle closed, the state STOPPED
\* and _stop_requested set, without touching _retry_count or the stats; a
\* stop() on a watcher already stopped changes nothing.
C16_StopIdempotent ==
  [][Stop =>
       /\ Stopped'
       /\ UNCHANGED <<_retry_count, stats, _inode>>
       /\ Stopped => UNCHANGED <<_file, _state, _stop_requested>>]_vars

\* C16 witness: stop() has closed the handle the loop had opened
C16_Witness == stop_called /\ Stopped /\ pc = "pause_check" /\ _inode = 1

\* C17 as claimed: in a run without I/O faults, once another thread has
\* called stop(), the loop thread raises nothing on the closed handle,
\* start() ends by returning, and no step takes the state from STOPPED to
\* ERROR.
C17_StopIsSafe ==
  [][(stop_called' /\ faults' = 0) =>
       /\ exc' # "ValueError"
       /\ (pc' = "done" => result' = "returned")
       /\ ~(_state = "STOPPED" /\ _state' = "ERROR")]_vars

C18_Allowed ==
  {<<"STOPPED", "RUNNING">>, <<"RUNNING", "PAUSED">>, <<"PAUSED", "RUNNING">>,
   <<"RUNNING", "STOPPED">>, <<"PAUSED", "STOPPED">>, <<"RUNNING", "ERROR">>,
   <<"PAUSED", "ERROR">>, <<"ERROR", "STOPPED">>}

\* some invocation of start() has set the state to ERROR
C18_WasError ==
  \/ exhausted
  \/ result \in {"OSError", "ValueError"} \/ other.result \in {"OSError", "ValueError"}

\* C18 as claimed: every change of the state of a constructed watcher is one
\* of the allowed edges, and a watcher that has been in ERROR is never made
\* RUNNING again.
C18_AllowedEdges ==
  [][(_state' # _state /\ _state # "UNSET") =>
       /\ <<_state, _state'>> \in C18_Allowed
       /\ C18_WasError => _state' # "RUNNING"]_vars

\* C19 as claimed: a WatcherConfig that has been constructed passes
\* validate(): none exists with check_interval <= 0, max_retries < 0 or
\* retry_delay < 0.
C19_ValidatedAtConstruction == built # "nothing" => validate(config) = "ok"

\* C20: when extract_level raises on a line read by the loop, nothing
\* propagates: errors_occurred grows by exactly 1, total_lines and
\* lines_by_level keep their values, the cursor is past the line, and the
\* loop goes on to its next cycle.
C20_ClassifierFailure ==
  [][(formatter_raises /\ delivered' # delivered) =>
       /\ stats'.errors_occurred = stats.errors_occurred + 1
       /\ stats'.total_lines = stats.total_lines
       /\ stats'.lines_by_level = stats.lines_by_level
       /\ _file'.pos > SeekTarget(_file.pos, file_size)
       /\ pc' = "while" /\ exc' = "none"]_vars

\* C20 witness: the one line read was an INFO line, which min_level WARN
\* would not print, and it was counted as an error
C20_Witness ==
  /\ formatter_raises /\ delivered = <<<<2>>>>
  /\ stats.errors_occurred = 1 /\ stats.total_lines = 0 /\ pc = "while"

\* C21 as claimed: for a line made of a level token, separators and a text,
\* extract_level returns that level and the text, its characters unchanged,
\* as the message; with min_level WARN the entry of a WARN or ERROR line is
\* shown.
C21_TokenLine ==
  \A l \in LevelSet, sp \in Separators, x \in Texts :
    (classified # NoEntry /\ sp # <<>> /\ input_line = LevelChars(l) \o sp \o x) =>
      /\ classified = [level |-> l, message |-> x]
      /\ l \in {"WARN", "ERROR"} => should_show(classified.level, min_level)

NoToken(s) == \A l \in LevelSet : Find(LevelChars(l), Upper(s)) = 0

\* C22: for a line that holds none of the four level tokens in any case,
\* extract_level returns INFO and the line itself as the message.
C22_NoTokenLine ==
  (classified # NoEntry /\ NoToken(input_line)) =>
    classified = [level |-> "INFO", message |-> input_line]

\* C22 witness: "hello world" has been classified
C22_Witness ==
  /\ input_line = <<"h", "e", "l", "l", "o", " ", "w", "o", "r", "l", "d">>
  /\ classified.level = "INFO"

\* the sum of the four lines_by_level counts of a stats mapping
SumByLevel(c) ==
  c.lines_by_level["ERROR"] + c.lines_by_level["WARN"]
    + c.lines_by_level["INFO"] + c.lines_by_level["DEBUG"]

\* C23: a snapshot get_stats() returned while handle() calls were running is
\* consistent: its total_lines is the sum of its lines_by_level counts (as
\* long as its owner has not written into it)
C23_Consistent ==
  (snapshot.taken = "yes" /\ ~snapshot.mutated) =>
    snapshot.stats.total_lines = SumByLevel(snapshot.stats)

\* C24: under fair scheduling of the poll loop, every complete line appended
\* after start() was called is eventually passed to _process_line, unless the
\* watcher leaves RUNNING or an I/O error occurs first (the file is neither
\* rotated nor truncated in SpecLive).
C24_Delivered ==
  \A k \in 2..(MaxWrites + 1) :
    (pc # "idle" /\ k \in IdsOf(files[path]) \ preexisting)
      ~> (k \in DeliveredIds \/ _state # "RUNNING" \/ faults > 0)

\* the level _process_line detected for the i-th line it was passed
LevelOf(i) == extract_level(LineText(delivered[i])).level

\* the lines passed to _process_line so far that passed the severity filter
Shown == {i \in 1..Len(delivered) : should_show(LevelOf(i), min_level)}

\* C25: after any sequence of _process_line calls total_lines is the number
\* of processed lines that passed the severity filter, lines_by_level[L] the
\* number of those classified as L, and total_lines the sum of the four
\* lines_by_level counts.
C25_StatsCount ==
  /\ stats.total_lines = Cardinality(Shown)
  /\ \A l \in LevelSet :
       stats.lines_by_level[l] = Cardinality({i \in Shown : LevelOf(i) = l})
  /\ stats.total_lines = SumByLevel(stats)

\* C26: every poll cycle that completes without an I/O error, whether it read
\* a line or not, leaves _retry_count = 0; the counter grows only in the
\* handler of a failed cycle, by one.
C26_ResetOnSuccess ==
  [][/\ (pc = "read" /\ pc' = "while") => _retry_count' = 0
     /\ _retry_count' > _retry_count =>
          (pc = "handler" /\ _retry_count' = _retry_count + 1)]_vars

\* a cycle has completed and reset the counter that a failed cycle, followed
\* by a reopen, had raised
C26_Witness ==
  /\ retry_opens > 0 /\ stats.errors_occurred > 0
  /\ pc = "while" /\ ~_file.closed /\ _state = "RUNNING"
  /\ _retry_count = 0

\* C27: when the reopen inside _handle_read_error succeeds, the handler
\* returns with _retry_count = 0.
C27_ReopenResets ==
  [][(pc = "retry_open" /\ ~_file'.closed) => _retry_count' = 0]_vars

\* C28: after a reopen attempt of the retry handler no poll cycle raises an
\* exception that leaves the loop of start(): a failing cycle goes to
\* _handle_read_error (no stop() from another thread being involved).
C28_StaysInPolicy ==
  [][(retry_opens > 0 /\ ~stop_called /\ pc \in {"size", "read"}) => pc' # "except"]_vars

\* the offsets after the cursor of this cycle's read that hold a terminator
TerminatorsAhead ==
  {j \in (SeekTarget(_file.pos, file_size) + 1)..Len(files[_file.fid]) :
     files[_file.fid][j] = NL}

\* C29: a poll cycle passes at most one line to _process_line; when a
\* complete line is available at the cursor the cycle reads exactly that
\* line, without its terminator, and leaves the cursor just past its
\* terminator, so that the lines after it are still unread.
C29_OneLinePerCycle ==
  [][(pc = "read" /\ pc' = "while") =>
       /\ Len(delivered') <= Len(delivered) + 1
       /\ TerminatorsAhead # {} =>
            /\ Len(delivered') = Len(delivered) + 1
            /\ _file'.pos \in TerminatorsAhead
            /\ \A j \in TerminatorsAhead : _file'.pos <= j
            /\ delivered'[Len(delivered')] =
                 SubSeq(files[_file.fid], SeekTarget(_file.pos, file_size) + 1,
                        _file'.pos - 1)]_vars

\* a cycle has delivered one line and left the cursor after its terminator,
\* with another complete line still unread behind it
C29_Witness ==
  /\ pc = "while" /\ ~_file.closed /\ delivered # <<>>
  /\ _file.pos > 1 /\ _file.pos <= Len(files[_file.fid])
  /\ files[_file.fid][_file.pos] = NL
  /\ delivered[Len(delivered)] = <<files[_file.fid][_file.pos - 1]>>
  /\ \E j \in (_file.pos + 2)..Len(files[_file.fid]) : files[_file.fid][j] = NL

\* C30: a poll cycle that finds no terminator after its cursor (nothing, or a
\* partial line, is there) delivers nothing and leaves the cursor where the
\* read began, so that the partial line is read whole once it is complete.
C30_PartialLeft ==
  [][(pc = "read" /\ pc' = "while" /\ TerminatorsAhead = {}) =>
       /\ delivered' = delivered
       /\ _file'.pos = SeekTarget(_file.pos, file_size)]_vars

\* C31: should_show ranks an unknown severity as DEBUG (0), as detected level
\* and as minimum level alike: under an unrecognised min_level every entry
\* of a known severity is shown.
C31_UnknownIsDebug ==
  (filtered.called /\ filtered.min_level \notin LevelSet /\ filtered.detected \in LevelSet)
    => filtered.result

\* C32: after any sequence of handle() calls system_events.recent holds at
\* most 20 entries, and they are the most recently handled system events in
\* the order of their arrival; total_events and by_type count every system
\* event handled.
C32_RecentRing ==
  LET recent == system_events.recent
  IN /\ Len(recent) <= RecentLimit
     /\ Len(recent) = (IF Arrived < RecentLimit THEN Arrived ELSE RecentLimit)
     /\ \A i \in 1..Len(recent) : recent[i].id = Arrived - Len(recent) + i
     /\ system_events.total_events = Arrived
     /\ \A t \in EventTypes : system_events.by_type[t] = handled[t]

\* more than 20 system events of both types have been handled, the oldest
\* ones are no longer in recent
C32_Witness ==
  /\ Arrived > RecentLimit
  /\ handled["file_error"] > 0 /\ handled["file_rotation"] > 0
  /\ Len(system_events.recent) = RecentLimit
  /\ system_events.recent[1].id = Arrived - RecentLimit + 1

\* C33: after any sequence of handle() calls with log entries of arbitrary
\* level strings the key set of log_entries.lines_by_level is exactly
\* {ERROR, WARN, INFO, DEBUG}.
C33_FourKeys ==
  handling.stage = "idle" => DOMAIN collector.lines_by_level = LevelSet

\* C34: under fair scheduling of the thread in start(), once another thread
\* has called stop() after start() was called (SpecStop has no other call
\* of stop()), the loop is eventually left and start() ends.
C34_StopEndsStart == stop_called ~> pc = "done"

\* C35: whenever start() has ended after it passed the existence check, the
\* handle is closed, the state is STOPPED and _stop_requested is set.
C35_EndsStopped == pc = "done" => Stopped

\* C36: the mapping get_stats() returned is independent of the watcher: no
\* assignment into it, nested mapping included, changes the watcher's stats,
\* and no line processed later changes what the mapping holds.
C36_Independent ==
  [][/\ MutateReturned => stats' = stats
     /\ (returned.taken /\ ReadLine) =>
          /\ returned' = returned
          /\ ReturnedLevels' = ReturnedLevels]_vars

\* C37: in every reachable state, for every valid configuration
\* (max_retries = 0 included), 0 <= _retry_count <= max_retries, also after
\* the instance is started again following exhausted retries.
C37_RetryCountBounded ==
  _retry_count >= 0 /\ _retry_count <= config.max_retries

\* C38: with restart_on_error = False an I/O error in a poll cycle only adds
\* 1 to errors_occurred (no change of _retry_count, no reopen by the handler,
\* no ERROR state), and the loop is not left before stop() was called,
\* however many cycles fail.
C38_ErrorsOnlyCounted ==
  [][(~config.restart_on_error) =>
       /\ HandleReadError =>
            /\ stats' = [stats EXCEPT !.errors_occurred = @ + 1]
            /\ UNCHANGED <<_retry_count, _state, _stop_requested, _file, _inode>>
            /\ pc' = "while"
       /\ (pc \in InTry \ {"open"} /\ pc' \in {"except", "finally"}) => stop_called]_vars

====
